---------------------------- MODULE Spec2Model ----------------------------
(***************************************************************************)
(* The Opus/WebM decode job of wordle_sonar/scripts/opus.wasm.js: the EBML *)
(* tree walker (ParseMaster), the timing handlers (ParseDuration,          *)
(* ParseDelay, ParseDiscard), the block extractor (ParseBlock, ParseFrame),*)
(* the PCM assembler (WriteOutput) and the job entry point (OpusDecode).   *)
(*                                                                         *)
(* A container is a sequence of bytes; position p of the DataView is       *)
(* element p + 1 of the sequence.  A handler that can throw returns a      *)
(* record whose err field is "" on a normal return and the exception's     *)
(* message otherwise.                                                      *)
(***************************************************************************)
EXTENDS Integers, Sequences, FiniteSets, TLC

\* ------------------------------------------------------------------ bounds
\* The number of OpusDecode jobs invoked in one behaviour.
MaxJobs == 2
\* The bytes of all the containers decoded in one behaviour.
MaxBytes == 28
\* The number of library elements concatenated into one container.
MaxElems == 4

\* --------------------------------------------------------------- constants
VINT_SIZES ==
<< 0, 8, 7, 7, 6, 6, 6, 6, 5, 5, 5, 5, 5, 5, 5, 5,
   4, 4, 4, 4, 4, 4, 4, 4, 4, 4, 4, 4, 4, 4, 4, 4,
   3, 3, 3, 3, 3, 3, 3, 3, 3, 3, 3, 3, 3, 3, 3, 3,
   3, 3, 3, 3, 3, 3, 3, 3, 3, 3, 3, 3, 3, 3, 3, 3,
   2, 2, 2, 2, 2, 2, 2, 2, 2, 2, 2, 2, 2, 2, 2, 2,
   2, 2, 2, 2, 2, 2, 2, 2, 2, 2, 2, 2, 2, 2, 2, 2,
   2, 2, 2, 2, 2, 2, 2, 2, 2, 2, 2, 2, 2, 2, 2, 2,
   2, 2, 2, 2, 2, 2, 2, 2, 2, 2, 2, 2, 2, 2, 2, 2,
   1, 1, 1, 1, 1, 1, 1, 1, 1, 1, 1, 1, 1, 1, 1, 1,
   1, 1, 1, 1, 1, 1, 1, 1, 1, 1, 1, 1, 1, 1, 1, 1,
   1, 1, 1, 1, 1, 1, 1, 1, 1, 1, 1, 1, 1, 1, 1, 1,
   1, 1, 1, 1, 1, 1, 1, 1, 1, 1, 1, 1, 1, 1, 1, 1,
   1, 1, 1, 1, 1, 1, 1, 1, 1, 1, 1, 1, 1, 1, 1, 1,
   1, 1, 1, 1, 1, 1, 1, 1, 1, 1, 1, 1, 1, 1, 1, 1,
   1, 1, 1, 1, 1, 1, 1, 1, 1, 1, 1, 1, 1, 1, 1, 1,
   1, 1, 1, 1, 1, 1, 1, 1, 1, 1, 1, 1, 1, 1, 1, 1 >>

\* VINT_MASKS with the mask of the length 8 keeping the lowest bit.
VINT_MASKS_KeepsLowBit == << 255, 127, 63, 31, 15, 7, 3, 1, 1 >>

VINT_MASKS == << 255, 127, 63, 31, 15, 7, 3, 1, 0 >>

OPUS_SIG == << 65, 95, 79, 80, 85, 83 >>

\* Element IDs of the switch in ParseMaster.
ID_Segment == 408125543
ID_Info == 357149030
ID_Cluster == 524531317
ID_Tracks == 374648427
ID_TrackEntry == 174
ID_BlockGroup == 160
ID_Duration == 17545
ID_CodecDelay == 22186
ID_DiscardPadding == 30114
ID_CodecID == 134
ID_Block == 161
ID_SimpleBlock == 163

MasterIDs ==
  {ID_Segment, ID_Info, ID_Cluster, ID_Tracks, ID_TrackEntry, ID_BlockGroup}

LeafIDs ==
  {ID_Duration, ID_CodecDelay, ID_DiscardPadding, ID_CodecID, ID_Block,
   ID_SimpleBlock}

\* CreateDecoder: frequency / 1e3 * channels, and the overhang in ms.
SamplesPerMs == 48
OverhangMs == 120
\* ParseFrame: the maxOutputSamples argument of _decode_frame.
MaxOutputSamples == 4096

\* null, for a reference to an object (a typed array, a buffer).
null == [null |-> TRUE]
\* null, for the addresses of the native scratch buffers.
nullptr == "null"
\* null, for the decoder handle: _create_decoder returns a nonzero address or
\* a negative status, and null passes to the native side as 0.
NoDecoder == 0

\* ------------------------------------------------------- integer helpers
Pow2(n) == IF n <= 0 THEN 1 ELSE 2 ^ n

Max(a, b) == IF a >= b THEN a ELSE b

Min(a, b) == IF a <= b THEN a ELSE b

\* x << 8 on a JavaScript number: ToInt32(x), shifted, as a signed 32-bit
\* integer.  Only the low 24 bits of x survive.
Shl8(x) ==
  LET low == x % 16777216
  IN  IF low >= 8388608 THEN (low - 16777216) * 256 ELSE low * 256

\* b & mask for the masks of VINT_MASKS (each is 2^k - 1).
AndMask(b, mask) == b % (mask + 1)

\* Math.floor(ns * 0.000048).  In IEEE double arithmetic this equals the
\* exact floor(ns * 3 / 62500) for every |ns| < 2^32: the product is within
\* one ulp of the exact value, which is an integer or at least 1/62500 away
\* from one, and the exact multiples of 62500 round to the integer itself.
FloorSamples(ns) == 3 * (ns \div 62500) + ((3 * (ns % 62500)) \div 62500)

\* ------------------------------------------------------------- DataView
InRange(data, position, n) == position >= 0 /\ position + n <= Len(data)

getUint8(data, position) == data[position + 1]

getInt8(data, position) ==
  LET b == data[position + 1] IN IF b >= 128 THEN b - 256 ELSE b

getInt16(data, position) ==
  LET u == data[position + 1] * 256 + data[position + 2]
  IN  IF u >= 32768 THEN u - 65536 ELSE u

getInt32(data, position) ==
  LET hi == data[position + 1]
      lo == data[position + 2] * 65536 + data[position + 3] * 256
              + data[position + 4]
  IN  (IF hi >= 128 THEN hi - 256 ELSE hi) * 16777216 + lo

Ok(v) == [err |-> "", v |-> v]

Throw(msg) == [err |-> msg, v |-> 0]


\* ---------------------------------------------------------- VarInt codec
RECURSIVE ReadVIntLoop(_, _, _, _, _)
ReadVIntLoop(data, position, length, i, value) ==
  IF i >= length THEN value
  ELSE ReadVIntLoop(data, position, length, i + 1,
                    Shl8(value) + getUint8(data, position + i))

\* ReadVInt that leaves the marker bit in the first byte whatever the mask.
ReadVInt_MarkerKept(data, position, length, initialMask) ==
  IF ~InRange(data, position, Max(length, 1)) THEN Throw("RangeError")
  ELSE Ok(ReadVIntLoop(data, position, length, 1,
                       getUint8(data, position)))

\* Reads max(length, 1) bytes; a read outside the buffer is a RangeError.
ReadVInt(data, position, length, initialMask) ==
  IF ~InRange(data, position, Max(length, 1)) THEN Throw("RangeError")
  ELSE Ok(ReadVIntLoop(data, position, length, 1,
                       AndMask(getUint8(data, position), initialMask)))

\* first >> 7 is 0 or -1 for an int8, and value << 8 has its low byte clear,
\* so | adds the byte.  Both shifts read the byte at position itself.
ReadInt24(data, position) ==
  IF ~InRange(data, position, 1) THEN Throw("RangeError")
  ELSE LET first == getInt8(data, position)
           sign == first \div 128
           value0 == first % 128
           value1 == Shl8(value0) + getUint8(data, position)
           value2 == Shl8(value1) + getUint8(data, position)
       IN  Ok(IF sign = 1 THEN -value2 ELSE value2)

ParseIntTag(data, position, size) ==
  CASE size = 1 -> IF InRange(data, position, 1)
                   THEN Ok(getInt8(data, position)) ELSE Throw("RangeError")
    [] size = 2 -> IF InRange(data, position, 2)
                   THEN Ok(getInt16(data, position)) ELSE Throw("RangeError")
    [] size = 3 -> ReadInt24(data, position)
    [] size = 4 -> IF InRange(data, position, 4)
                   THEN Ok(getInt32(data, position)) ELSE Throw("RangeError")
    [] OTHER -> Throw("Invalid size")

\* ----------------------------------------------------------------- floats
\* A float is NaN, an infinity, or (neg ? -1 : 1) * m * 2^e.
Float(kind, neg, m, e) == [kind |-> kind, neg |-> neg, m |-> m, e |-> e]

getFloat32(data, position) ==
  LET b0 == data[position + 1]
      b1 == data[position + 2]
      neg == b0 >= 128
      exp == (b0 % 128) * 2 + (b1 \div 128)
      frac == (b1 % 128) * 65536 + data[position + 3] * 256
                + data[position + 4]
  IN  IF exp = 255 THEN Float(IF frac = 0 THEN "inf" ELSE "nan", neg, 0, 0)
      ELSE IF exp = 0 THEN Float("fin", neg, frac, -149)
      ELSE Float("fin", neg, 8388608 + frac, exp - 150)

\* Float64 payloads whose low 32 fraction bits are zero; the corpus holds no
\* other, and TLC stops on one rather than round it.
getFloat64(data, position) ==
  LET b0 == data[position + 1]
      b1 == data[position + 2]
      neg == b0 >= 128
      exp == (b0 % 128) * 16 + (b1 \div 16)
      frac == (b1 % 16) * 65536 + data[position + 3] * 256
                + data[position + 4]
      lowZero == \A i \in 5..8 : data[position + i] = 0
  IN  CASE exp = 2047 ->
             Float(IF frac = 0 /\ lowZero THEN "inf" ELSE "nan", neg, 0, 0)
        [] exp # 2047 /\ lowZero ->
             IF exp = 0 THEN Float("fin", neg, frac, -1042)
             ELSE Float("fin", neg, 1048576 + frac, exp - 1043)

\* rate / 1e3 * channels * (duration + 120) with rate 48e3 and channels 1,
\* then the ToIndex conversion of new Float32Array(length): NaN is 0, the
\* value is truncated toward zero, and a negative or unallocatable length is
\* a RangeError.  Lengths of 2^31 and more are taken as unallocatable.
AudioLength(duration) ==
  LET base == SamplesPerMs * OverhangMs
      x == SamplesPerMs * duration.m
      k == -duration.e
      tiny == \/ duration.m = 0
              \/ -47 - duration.e >= 24
              \/ /\ -47 - duration.e >= 0
                 /\ duration.m <= Pow2(-47 - duration.e)
      q == x \div Pow2(k)
      r == x % Pow2(k)
      floorV == base - q - (IF r > 0 THEN 1 ELSE 0)
      trunc == IF floorV >= 0 THEN floorV ELSE base - q
  IN  CASE duration.kind = "nan" -> Ok(0)
        [] duration.kind = "inf" -> Throw("RangeError")
        [] duration.kind = "fin" /\ duration.m = 0 -> Ok(base)
        [] duration.kind = "fin" /\ duration.m # 0 /\ duration.e >= 0 ->
             IF duration.e > 7 \/ duration.m * Pow2(duration.e) >= 33554432
             THEN Throw("RangeError")
             ELSE IF duration.neg
                  THEN IF base - x * Pow2(duration.e) < 0
                       THEN Throw("RangeError")
                       ELSE Ok(base - x * Pow2(duration.e))
                  ELSE Ok(base + x * Pow2(duration.e))
        [] duration.kind = "fin" /\ duration.m # 0 /\ duration.e < 0
             /\ k > 30 ->
             Ok(IF duration.neg /\ ~tiny THEN base - 1 ELSE base)
        [] duration.kind = "fin" /\ duration.m # 0 /\ duration.e < 0
             /\ k <= 30 ->
             IF ~duration.neg THEN Ok(base + q)
             ELSE IF trunc < 0 THEN Throw("RangeError") ELSE Ok(trunc)

\* ---------------------------------------------------- typed-array contents
\* A Float32Array is its length and the runs of decoded samples stored in
\* it, in index order; every index outside a run holds 0.  A run
\* [at, len, hist, from] holds, at indices at .. at + len - 1, the samples
\* from .. from + len - 1 of the decoder output identified by hist.
Run(at, len, hist, from) ==
  [at |-> at, len |-> len, hist |-> hist, from |-> from]

NewFloat32Array(length) == [length |-> length, runs |-> << >>]

\* The parts of the runs at indices below hi.
RECURSIVE KeepBelow(_, _)
KeepBelow(runs, hi) ==
  IF runs = << >> THEN << >>
  ELSE LET r == Head(runs)
       IN  IF r.at >= hi THEN << >>
           ELSE << [r EXCEPT !.len = Min(r.len, hi - r.at)] >>
                  \o KeepBelow(Tail(runs), hi)

\* The parts of the runs at indices lo and above.
RECURSIVE KeepFrom(_, _)
KeepFrom(runs, lo) ==
  IF runs = << >> THEN << >>
  ELSE LET r == Head(runs)
           cut == Max(0, lo - r.at)
       IN  IF r.at + r.len <= lo THEN KeepFrom(Tail(runs), lo)
           ELSE << Run(r.at + cut, r.len - cut, r.hist, r.from + cut) >>
                  \o KeepFrom(Tail(runs), lo)

\* typedArray.set(source, offset), with the source a run of len samples.
Float32ArraySet(array, hist, from, len, offset) ==
  [array EXCEPT !.runs = KeepBelow(array.runs, offset)
                           \o << Run(offset, len, hist, from) >>
                           \o KeepFrom(array.runs, offset + len)]

\* _audioBuffer.buffer.slice(0, end * 4), in samples: a negative end counts
\* from the end of the buffer, and the range is clamped to the buffer.
BufferSlice(array, end) ==
  LET final == IF end < 0 THEN Max(array.length + end, 0)
               ELSE Min(end, array.length)
  IN  [length |-> final, runs |-> KeepBelow(array.runs, final)]

\* The sample at index i of a typed array: 0, or << hist, index >>.
SampleAt(array, i) ==
  IF \E k \in 1..Len(array.runs) :
        array.runs[k].at <= i /\ i < array.runs[k].at + array.runs[k].len
  THEN LET k == CHOOSE k \in 1..Len(array.runs) :
                  array.runs[k].at <= i
                  /\ i < array.runs[k].at + array.runs[k].len
       IN  << array.runs[k].hist, array.runs[k].from + i - array.runs[k].at >>
  ELSE 0

\* ---------------------------------------------------------- native decoder
\* The live decoders are pairs << handle, hist >>, hist being the frames the
\* decoder has decoded (each frame by its first byte).
IsLive(native, h) == \E d \in native : d[1] = h

HistOf(native, h) == (CHOOSE d \in native : d[1] = h)[2]

FreshHandle(native) ==
  CHOOSE h \in 1..(Cardinality(native) + 1) :
    ~IsLive(native, h) /\ \A g \in 1..(h - 1) : IsLive(native, g)

\* The sample count the decoder returns for a frame: a function of the
\* frame (by its first byte, the Opus TOC), or a negative error.
FrameSamples(frame) ==
  CASE frame = << >> -> -1
    [] frame # << >> /\ frame[1] = 248 -> 960
    [] frame # << >> /\ frame[1] = 24 -> 2880
    [] frame # << >> /\ frame[1] = 128 -> 120
    [] OTHER -> -4

\* _decode_frame(decoder, in, length, out, 4096): the count, and the hist
\* that identifies the samples left in the output scratch buffer.  Without
\* a live decoder the call reads a null or invalid state: it may fail or
\* return samples of no decoder.
DecodeFrame(native, decoder, frame) ==
  IF IsLive(native, decoder)
  THEN { [ret |-> FrameSamples(frame),
          hist |-> IF FrameSamples(frame) > 0
                   THEN Append(HistOf(native, decoder), frame[1])
                   ELSE HistOf(native, decoder)] }
  ELSE { [ret |-> -1, hist |-> << >>] }
         \cup (IF FrameSamples(frame) > 0
               THEN { [ret |-> FrameSamples(frame), hist |-> << -1 >>] }
               ELSE { })

\* ------------------------------------------------------------ module state
\* The module-level variables of the script as one record m, with the
\* native side (the live decoders, the samples in the output scratch
\* buffer), the native calls of the running job (calls) and the exception
\* in flight (err).
InitModule ==
  [decoder |-> NoDecoder, audioBuffer |-> null, inputPointer |-> nullptr,
   outputBuffer |-> nullptr, outputPointer |-> nullptr, outputOffset |-> 0,
   heapOut |-> << >>, native |-> { }, calls |-> << >>, err |-> ""]

Raise(m, msg) == [m EXCEPT !.err = msg]

\* CreateDecoder: the size of the two native scratch buffers.
bufferSize == 2048

\* The float samples the output scratch buffer holds: _malloc(bufferSize << 2)
\* bytes, four to a sample, once CreateDecoder has allocated it.
OutputScratchSamples(m) ==
  IF m.outputPointer = nullptr THEN 0 ELSE (bufferSize * 4) \div 4

\* The bytes the input scratch buffer holds: _malloc(bufferSize).
InputScratchBytes(m) == IF m.inputPointer = nullptr THEN 0 ELSE bufferSize

\* CalculateAudioBufferSize without the 120 ms added to the duration.
CalculateAudioBufferSize_NoOverhang(duration) ==
  LET length == AudioLength(duration)
  IN  IF length.err = "" /\ length.v >= SamplesPerMs * OverhangMs
      THEN Ok(length.v - SamplesPerMs * OverhangMs)
      ELSE length

CalculateAudioBufferSize(duration) == AudioLength(duration)

\* duration is duration + 120 of the source already folded into
\* AudioLength.  A failure of new Float32Array leaves every variable as it
\* was; a failure of _create_decoder is met after the assignments.
CreateDecoder(m, duration) ==
  LET length == CalculateAudioBufferSize(duration)
      m1 == [m EXCEPT !.audioBuffer = NewFloat32Array(length.v),
                      !.outputPointer = "out",
                      !.outputBuffer = "out",
                      !.inputPointer = "in"]
      h == FreshHandle(m.native)
  IN  IF length.err # "" THEN { Raise(m, length.err) }
      ELSE { [m1 EXCEPT !.decoder = h,
                        !.native = m.native \cup { << h, << >> >> },
                        !.calls = Append(m.calls, << "create", h >>)],
             [m1 EXCEPT !.decoder = -1,
                        !.calls = Append(m.calls, << "create", -1 >>),
                        !.err = "Failed to create decoder"] }

\* DestroyDecoder that leaves the Write Cursor where the job left it.
DestroyDecoder_KeepsCursor(m) ==
  [m EXCEPT !.native = { d \in m.native : d[1] # m.decoder },
            !.calls = Append(m.calls, << "destroy", m.decoder >>),
            !.decoder = NoDecoder]

DestroyDecoder(m) ==
  [m EXCEPT !.native = { d \in m.native : d[1] # m.decoder },
            !.calls = Append(m.calls, << "destroy", m.decoder >>),
            !.decoder = NoDecoder,
            !.outputOffset = 0]

\* WriteOutput without the test against the buffer's length.
WriteOutput_Unchecked(m, ret) ==
  LET trim == -m.outputOffset
      from == IF m.outputOffset < 0 THEN trim ELSE 0
      tempLength == IF m.outputOffset < 0 THEN ret - trim ELSE ret
      writePosition == IF m.outputOffset < 0 THEN 0 ELSE m.outputOffset
  IN  IF ret + m.outputOffset > 0
      THEN IF m.audioBuffer = null THEN Raise(m, "TypeError")
           ELSE [m EXCEPT !.audioBuffer =
                             Float32ArraySet(m.audioBuffer, m.heapOut,
                                             from, tempLength,
                                             writePosition),
                          !.outputOffset = m.outputOffset + ret]
      ELSE [m EXCEPT !.outputOffset = m.outputOffset + ret]

\* WriteOutput advancing the cursor before the test against the buffer's
\* length.
WriteOutput_AdvanceFirst(m, ret) ==
  LET trim == -m.outputOffset
      from == IF m.outputOffset < 0 THEN trim ELSE 0
      tempLength == IF m.outputOffset < 0 THEN ret - trim ELSE ret
      writePosition == IF m.outputOffset < 0 THEN 0 ELSE m.outputOffset
      m1 == [m EXCEPT !.outputOffset = m.outputOffset + ret]
  IN  IF ret + m.outputOffset > 0
      THEN IF m.audioBuffer = null THEN Raise(m, "TypeError")
           ELSE IF writePosition + tempLength > m.audioBuffer.length
                THEN Raise(m1, "Buffer overflow")
                ELSE [m1 EXCEPT !.audioBuffer =
                                   Float32ArraySet(m.audioBuffer, m.heapOut,
                                                   from, tempLength,
                                                   writePosition)]
      ELSE m1

\* WriteOutput storing every frame at index 0 of the buffer.
WriteOutput_AtStart(m, ret) ==
  LET trim == -m.outputOffset
      from == IF m.outputOffset < 0 THEN trim ELSE 0
      tempLength == IF m.outputOffset < 0 THEN ret - trim ELSE ret
      writePosition == IF m.outputOffset < 0 THEN 0 ELSE m.outputOffset
  IN  IF ret + m.outputOffset > 0
      THEN IF m.audioBuffer = null THEN Raise(m, "TypeError")
           ELSE IF writePosition + tempLength > m.audioBuffer.length
                THEN Raise(m, "Buffer overflow")
                ELSE [m EXCEPT !.audioBuffer =
                                  Float32ArraySet(m.audioBuffer, m.heapOut,
                                                  from, tempLength, 0),
                               !.outputOffset = m.outputOffset + ret]
      ELSE [m EXCEPT !.outputOffset = m.outputOffset + ret]

WriteOutput(m, ret) ==
  LET trim == -m.outputOffset
      from == IF m.outputOffset < 0 THEN trim ELSE 0
      tempLength == IF m.outputOffset < 0 THEN ret - trim ELSE ret
      writePosition == IF m.outputOffset < 0 THEN 0 ELSE m.outputOffset
  IN  IF ret + m.outputOffset > 0
      THEN IF m.audioBuffer = null THEN Raise(m, "TypeError")
           ELSE IF writePosition + tempLength > m.audioBuffer.length
                THEN Raise(m, "Buffer overflow")
                ELSE [m EXCEPT !.audioBuffer =
                                  Float32ArraySet(m.audioBuffer, m.heapOut,
                                                  from, tempLength,
                                                  writePosition),
                               !.outputOffset = m.outputOffset + ret]
      ELSE [m EXCEPT !.outputOffset = m.outputOffset + ret]

\* HEAPU8.set(data, _inputPointer) copies the whole frame.  One longer than
\* the input scratch buffer overwrites what the heap holds behind it, and the
\* call that follows may then fail as well as decode.
ParseFrame(m, data) ==
  { LET m1 == [m EXCEPT !.calls = Append(m.calls,
                                          << "decode", m.decoder, d.ret >>),
                        !.heapOut = IF d.ret > 0 THEN d.hist ELSE m.heapOut,
                        !.native = IF d.ret > 0 /\ IsLive(m.native, m.decoder)
                                   THEN { e \in m.native : e[1] # m.decoder }
                                          \cup { << m.decoder, d.hist >> }
                                   ELSE m.native]
    IN  IF d.ret > 0 THEN WriteOutput(m1, d.ret)
        ELSE Raise(m1, "Failed to parse frame")
    : d \in DecodeFrame(m.native, m.decoder, data)
             \cup (IF Len(data) > InputScratchBytes(m)
                   THEN { [ret |-> -1, hist |-> << >>] }
                   ELSE { }) }

\* flags & 6
Lacing(flags) == ((flags \div 2) % 4) * 2

SubSeqFrom(data, position, size) == SubSeq(data, position + 1, position + size)

\* ParseBlock without the test of the lacing bits.
ParseBlock_AnyLacing(m, data, position, size) ==
  IF ~InRange(data, position, 1) THEN { Raise(m, "RangeError") }
  ELSE
    LET tagLength == VINT_SIZES[getUint8(data, position) + 1]
        flagsAt == position + tagLength + 2
        frameAt == flagsAt + 1
        frameSize == size - (tagLength + 3)
    IN  IF ~InRange(data, flagsAt, 1) THEN { Raise(m, "RangeError") }
        ELSE IF frameSize < 0 \/ ~InRange(data, frameAt, frameSize)
             THEN { Raise(m, "RangeError") }
             ELSE ParseFrame(m, SubSeqFrom(data, frameAt, frameSize))

ParseBlock(m, data, position, size) ==
  IF ~InRange(data, position, 1) THEN { Raise(m, "RangeError") }
  ELSE
    LET tagLength == VINT_SIZES[getUint8(data, position) + 1]
        flagsAt == position + tagLength + 2
        frameAt == flagsAt + 1
        frameSize == size - (tagLength + 3)
    IN  IF ~InRange(data, flagsAt, 1) THEN { Raise(m, "RangeError") }
        ELSE IF Lacing(getUint8(data, flagsAt)) # 0
             THEN { Raise(m, "Lacing not supported") }
             ELSE IF frameSize < 0 \/ ~InRange(data, frameAt, frameSize)
                  THEN { Raise(m, "RangeError") }
                  ELSE ParseFrame(m, SubSeqFrom(data, frameAt, frameSize))

ParseDuration(m, data, position, size) ==
  IF size = 4
  THEN IF InRange(data, position, 4)
       THEN CreateDecoder(m, getFloat32(data, position))
       ELSE { Raise(m, "RangeError") }
  ELSE IF size = 8
       THEN IF InRange(data, position, 8)
            THEN CreateDecoder(m, getFloat64(data, position))
            ELSE { Raise(m, "RangeError") }
       ELSE { Raise(m, "Invalid size") }

ParseDiscard(m, data, position, size) ==
  LET discardDuration == ParseIntTag(data, position, size)
  IN  IF discardDuration.err # "" THEN Raise(m, discardDuration.err)
      ELSE IF discardDuration.v < 0
           THEN Raise(m, "Cannot discard leading block data")
           ELSE [m EXCEPT !.outputOffset =
                            m.outputOffset - FloorSamples(discardDuration.v)]

\* ParseDelay without the negation of the sample count.
ParseDelay_NotNegated(m, data, position, size) ==
  LET discardDuration == ReadVInt(data, position, size, 255)
  IN  IF discardDuration.err # "" THEN Raise(m, discardDuration.err)
      ELSE [m EXCEPT !.outputOffset = FloorSamples(discardDuration.v)]

ParseDelay(m, data, position, size) ==
  LET discardDuration == ReadVInt(data, position, size, 255)
  IN  IF discardDuration.err # "" THEN Raise(m, discardDuration.err)
      ELSE [m EXCEPT !.outputOffset = -FloorSamples(discardDuration.v)]

\* The first index whose byte is not the signature's decides: a read past
\* the end is a RangeError, a different byte the codec error.
RECURSIVE TestOpusLoop(_, _, _)
TestOpusLoop(data, position, i) ==
  IF i >= 6 THEN ""
  ELSE IF ~InRange(data, position + i, 1) THEN "RangeError"
       ELSE IF getUint8(data, position + i) # OPUS_SIG[i + 1]
            THEN "Contains non opus data"
            ELSE TestOpusLoop(data, position, i + 1)

TestOpus(m, data, position) == Raise(m, TestOpusLoop(data, position, 0))

\* ---------------------------------------------------------- EBML tree walker
\* The header ParseMaster decodes at position: the ID (marker kept), the
\* size (marker masked off) and the position of the payload.
Header(data, position) ==
  IF ~InRange(data, position, 1)
  THEN [err |-> "RangeError", id |-> 0, size |-> 0, position |-> position]
  ELSE
    LET tagLength == VINT_SIZES[getUint8(data, position) + 1]
        id == ReadVInt(data, position, tagLength, 255)
        sizeAt == position + tagLength
        sizeLength == VINT_SIZES[getUint8(data, sizeAt) + 1]
        mask == VINT_MASKS[sizeLength + 1]
        size == ReadVInt(data, sizeAt, sizeLength, mask)
        bad(msg) == [err |-> msg, id |-> 0, size |-> 0, position |-> position]
    IN  IF tagLength > 4 \/ tagLength = 0 THEN bad("Invalid tag length")
        ELSE IF id.err # "" THEN bad(id.err)
        ELSE IF ~InRange(data, sizeAt, 1) THEN bad("RangeError")
        ELSE IF sizeLength = 0 THEN bad("Invalid size length")
        ELSE IF size.err # "" THEN bad(size.err)
        ELSE [err |-> "", id |-> id.v, size |-> size.v,
              position |-> sizeAt + sizeLength]

\* One activation of ParseMaster: its position, its end, and the size its
\* caller adds to its own position when the activation returns.
Frame(position, size) ==
  [position |-> position, end |-> position + size, size |-> size]

\* A job: the module state, the stack of ParseMaster activations (the
\* innermost last), where the job is (pc), and how it ended.
Job(m, stack, pc, error, result) ==
  [m |-> m, stack |-> stack, pc |-> pc, error |-> error, result |-> result]

Top(s) == s.stack[Len(s.stack)]

\* Fail returning the samples stored before the exception.
Fail_ReturnsPartial(s, m) ==
  Job([m EXCEPT !.err = ""], << >>, "failed", m.err,
      IF m.audioBuffer = null THEN null
      ELSE BufferSlice(m.audioBuffer, Max(m.outputOffset, 0)))

\* An exception leaves OpusDecode: the job is rejected with the message and
\* no statement after the throw runs.
Fail(s, m) ==
  Job([m EXCEPT !.err = ""], << >>, "failed", m.err, null)

\* position += size in the innermost activation.
Advance(s, m, hdr) ==
  Job(m, [s.stack EXCEPT ![Len(s.stack)].position = hdr.position + hdr.size],
      "parse", "", null)

After(s, m, hdr) == IF m.err # "" THEN Fail(s, m) ELSE Advance(s, m, hdr)

\* The switch on id: the module states the handler can leave.
Dispatch(m, data, hdr) ==
  CASE hdr.id = ID_Duration -> ParseDuration(m, data, hdr.position, hdr.size)
    [] hdr.id = ID_CodecDelay ->
         { ParseDelay(m, data, hdr.position, hdr.size) }
    [] hdr.id = ID_DiscardPadding ->
         { ParseDiscard(m, data, hdr.position, hdr.size) }
    [] hdr.id = ID_CodecID -> { TestOpus(m, data, hdr.position) }
    [] hdr.id \in {ID_Block, ID_SimpleBlock} ->
         ParseBlock(m, data, hdr.position, hdr.size)
    [] OTHER -> { m }

\* Lines 96 to 103 of OpusDecode, after ParseMaster has returned.
Finalize(s) ==
  LET end == s.m.outputOffset
      m1 == DestroyDecoder(s.m)
  IN  IF m1.audioBuffer = null THEN Fail(s, Raise(m1, "TypeError"))
      ELSE Job([m1 EXCEPT !.audioBuffer = null], << >>, "done", "",
               BufferSlice(m1.audioBuffer, end))

\* What the next step of a parsing job is.
Kind(s, data) ==
  IF s.pc # "parse" THEN "none"
  ELSE IF Top(s).position >= Top(s).end
       THEN IF Len(s.stack) > 1 THEN "return" ELSE "finalize"
       ELSE LET hdr == Header(data, Top(s).position)
            IN  IF hdr.err # "" THEN "header"
                ELSE IF hdr.id \in MasterIDs THEN "master"
                ELSE IF hdr.id \in LeafIDs THEN "leaf"
                ELSE "skip"

\* One step of ParseMaster (one iteration of its loop, or its return) and of
\* OpusDecode after it: the job states the step can lead to.
ParseMaster(s, data) ==
  LET top == Top(s)
      hdr == Header(data, top.position)
      n == Len(s.stack)
  IN  CASE Kind(s, data) = "finalize" -> { Finalize(s) }
        [] Kind(s, data) = "return" ->
             { Job(s.m,
                   [SubSeq(s.stack, 1, n - 1) EXCEPT
                      ![n - 1].position = s.stack[n - 1].position + top.size],
                   "parse", "", null) }
        [] Kind(s, data) = "header" -> { Fail(s, Raise(s.m, hdr.err)) }
        [] Kind(s, data) = "master" ->
             { Job(s.m,
                   Append([s.stack EXCEPT ![n].position = hdr.position],
                          Frame(hdr.position, hdr.size)),
                   "parse", "", null) }
        [] Kind(s, data) \in {"leaf", "skip"} ->
             { After(s, m, hdr) : m \in Dispatch(s.m, data, hdr) }

\* How a job ended: pc, the message it was rejected with, the buffer returned.
Outcome(s) == [pc |-> s.pc, error |-> s.error, result |-> s.result]

\* The ways the job state s can end on the container data.
RECURSIVE Outcomes(_, _)
Outcomes(s, data) ==
  IF s.pc # "parse" THEN { Outcome(s) }
  ELSE UNION { Outcomes(t, data) : t \in ParseMaster(s, data) }

\* The job state in which OpusDecode calls ParseMaster, from module state m.
StartJob(m, data) ==
  Job([m EXCEPT !.calls = << >>], << Frame(0, Len(data)) >>, "parse", "", null)

\* The ways a job on data can end when it is the first job of a module.
FreshOutcomes(data) == Outcomes(StartJob(InitModule, data), data)

\* ------------------------------------------------------------------ corpus
\* An element with a one-byte size field.
Elem(id, payload) == id \o << 128 + Len(payload) >> \o payload

\* Block payload: track number 1, timecode 0, the flags, the frame.
BlockPayload(flags, frame) == << 129, 0, 0, flags >> \o frame

Dur40 == Elem(<< 68, 137 >>, << 66, 32, 0, 0 >>)
DurShort == Elem(<< 68, 137 >>, << 194, 200, 0, 0 >>)
Dur64 == Elem(<< 68, 137 >>, << 64, 68, 0, 0, 0, 0, 0, 0 >>)
DurBad == Elem(<< 68, 137 >>, << 66, 32 >>)
CD120 == Elem(<< 86, 170 >>, << 38, 37, 160 >>)
CD5760 == Elem(<< 86, 170 >>, << 7, 39, 14, 0 >>)
CDWrap == Elem(<< 86, 170 >>, << 128, 0, 0, 0 >>)
B960 == Elem(<< 163 >>, BlockPayload(0, << 248 >>))
B120 == Elem(<< 161 >>, BlockPayload(0, << 128 >>))
BLace == Elem(<< 163 >>, BlockPayload(2, << 248 >>))
BFail == Elem(<< 161 >>, BlockPayload(0, << >>))
DP1_0 == Elem(<< 117, 162 >>, << 0 >>)
DP1_neg == Elem(<< 117, 162 >>, << 255 >>)
DP2_pos == Elem(<< 117, 162 >>, << 127, 255 >>)
DP2_neg == Elem(<< 117, 162 >>, << 128, 0 >>)
DP3_pos == Elem(<< 117, 162 >>, << 30, 132, 128 >>)
DP3_neg == Elem(<< 117, 162 >>, << 255, 255, 255 >>)
DP4_pos == Elem(<< 117, 162 >>, << 0, 15, 66, 64 >>)
DP4_neg == Elem(<< 117, 162 >>, << 255, 255, 255, 255 >>)
DPBad == Elem(<< 117, 162 >>, << >>)
CodecOpus == Elem(<< 134 >>, OPUS_SIG)
CodecOther == Elem(<< 134 >>, << 65, 95, 86 >>)
Void == Elem(<< 236 >>, << 0 >>)
Segment(c) == Elem(<< 24, 83, 128, 103 >>, c)
Info(c) == Elem(<< 21, 73, 169, 102 >>, c)
Cluster(c) == Elem(<< 31, 67, 182, 117 >>, c)
Tracks(c) == Elem(<< 22, 84, 174, 107 >>, c)
TrackEntry(c) == Elem(<< 174 >>, c)
BlockGroup(c) == Elem(<< 160 >>, c)

\* The concatenations of at most n elements of lib.
RECURSIVE Concats(_, _)
Concats(lib, n) ==
  IF n = 0 THEN { << >> }
  ELSE LET shorter == Concats(lib, n - 1)
       IN  shorter \cup { e \o c : e \in lib, c \in shorter }

\* The elements whose every order the assembly corpus holds.
AssemblyLib == { Dur40, DurShort, CD120, B960, B120, DP4_pos }

\* Elements that fail a job, or that no handler changes the state for.
OddLib ==
  { BLace, BFail, DurBad, DPBad, CodecOpus, CodecOther, Void, Dur64 }

FailureCorpus ==
  UNION { { x, Dur40 \o x, x \o Dur40, Dur40 \o B960 \o x } : x \in OddLib }

DiscardLib ==
  { DP1_0, DP1_neg, DP2_pos, DP2_neg, DP3_pos, DP3_neg, DP4_pos, DP4_neg }

DiscardCorpus ==
  UNION { { Dur40 \o B960 \o d, Dur40 \o d \o B960,
            Dur40 \o BlockGroup(B960 \o d) } : d \in DiscardLib }

MasterCorpus ==
  { Segment(Dur40 \o B960), Info(Dur40) \o Cluster(B960),
    Tracks(TrackEntry(CodecOpus)) \o Dur64, Segment(Info(Void)),
    Cluster(BlockGroup(B960)), Info(Dur40) \o B960 \o Void }

\* Containers with a malformed or truncated header.
MalformedCorpus ==
  { << 0 >>, << 8, 129, 0 >>, << 68 >>, << 236 >>, << 236, 0 >>,
    << 236, 64 >>, Dur40 \o << 163 >>, Dur40 \o B960 \o << 236, 0 >> }

\* The end-to-end scenario: Duration 40 ms, CodecDelay 120000000 ns, one
\* block of 960 samples, DiscardPadding 0.
EndToEnd == Dur40 \o CD5760 \o B960 \o DP1_0

\* The same with a CodecDelay of 2500000 ns (2.5 ms).
EndToEnd2500 == Dur40 \o CD120 \o B960 \o DP1_0

\* A CodecDelay whose four bytes have the top bit set, alone, before a block
\* and behind a Duration.
DelayCorpus == { CDWrap, Dur40 \o CDWrap, Dur40 \o CDWrap \o B960 }

\* CodecDelays of five bytes: 2500000 ns behind two zero bytes, and 2^32 ns.
CD120Wide == Elem(<< 86, 170 >>, << 0, 0, 38, 37, 160 >>)
CDHigh == Elem(<< 86, 170 >>, << 1, 0, 0, 0, 0 >>)
WideDelayCorpus == { CD120Wide, Dur40 \o CDHigh }

\* Blocks with each value of the lacing bits, first and behind a decoded
\* block.
BLace4 == Elem(<< 161 >>, BlockPayload(4, << 248 >>))
BLace6 == Elem(<< 163 >>, BlockPayload(6, << 128 >>))
LacingCorpus == { BLace6, Dur40 \o BLace4, Dur40 \o B960 \o BLace6 }

\* CodecID payloads that are not the signature: a longer one that starts
\* with it, a shorter one at the end of the buffer, and a wrong one behind a
\* Cluster.
CodecLong == Elem(<< 134 >>, OPUS_SIG \o << 47 >>)
CodecShort == Elem(<< 134 >>, << 65, 95 >>)
CodecCorpus ==
  { CodecLong, Dur40 \o CodecLong \o B960, CodecShort, CodecShort \o Dur40,
    Dur40 \o Cluster(B960) \o TrackEntry(CodecOther) }

\* Elements whose size leads past the end of the buffer or of the master
\* element that holds them.
VoidPast == << 236, 133, 0 >>
WalkCorpus == { VoidPast, BlockGroup(<< 236, 130, 0 >>) \o Dur40 }

\* Size fields of five and eight bytes: a size of 1, and sizes the 32-bit
\* shift makes negative (-9, which leads back to position 0, and -2^31).
Void5 == << 236, 8, 0, 0, 0, 1, 0 >>
Void8 == << 236, 1, 0, 0, 0, 0, 0, 0, 1, 0 >>
LoopBack == Void \o << 236, 8, 255, 255, 255, 247 >>
SizeWrap == << 236, 8, 128, 0, 0, 0 >>
SizeCorpus == { Void5, Void8 \o Dur40, LoopBack, SizeWrap }

\* Durations that are not a whole number of milliseconds (1/64 ms as
\* float32 and as float64), NaN, an infinity, and -200 ms.
DurFrac == Elem(<< 68, 137 >>, << 60, 128, 0, 0 >>)
DurFrac64 == Elem(<< 68, 137 >>, << 63, 144, 0, 0, 0, 0, 0, 0 >>)
DurNaN == Elem(<< 68, 137 >>, << 127, 192, 0, 0 >>)
DurInf == Elem(<< 68, 137 >>, << 127, 128, 0, 0 >>)
DurNeg == Elem(<< 68, 137 >>, << 195, 72, 0, 0 >>)
DurationCorpus ==
  { DurFrac, DurFrac64, DurNaN, DurInf, DurNeg, DurFrac \o B960 }

\* A block and its DiscardPadding in a BlockGroup, in both orders, behind a
\* Duration of 40 ms and the given CodecDelay element (or none).
DiscardFirst(delay, d) == Dur40 \o delay \o BlockGroup(d \o B960)
BlockFirst(delay, d) == Dur40 \o delay \o BlockGroup(B960 \o d)

\* The delays and paddings of the order corpus: no delay with a padding of
\* 1000000 ns, a delay of 2500000 ns with a padding of 32767 ns.
OrderCases == { << << >>, DP4_pos >>, << CD120, DP2_pos >> }

OrderCorpus ==
  UNION { { DiscardFirst(c[1], c[2]), BlockFirst(c[1], c[2]) } :
          c \in OrderCases }

\* A block whose frame is 60 ms long (2880 samples), behind a Duration.
B2880 == Elem(<< 161 >>, BlockPayload(0, << 24 >>))
ScratchCorpus == { Dur40 \o B2880 }

\* The containers a job is invoked with.
Corpus ==
  Concats(AssemblyLib, MaxElems) \cup FailureCorpus \cup DiscardCorpus
    \cup MasterCorpus \cup MalformedCorpus \cup DelayCorpus
    \cup LacingCorpus \cup CodecCorpus \cup WalkCorpus \cup SizeCorpus
    \cup DurationCorpus \cup OrderCorpus \cup WideDelayCorpus
    \cup ScratchCorpus
    \cup { EndToEnd, EndToEnd2500 }

\* The containers of at most n bytes, for each n the budget can leave.
CorpusUpTo == [n \in 0..MaxBytes |-> { c \in Corpus : Len(c) <= n }]

\* ---------------------------------------------------------------- variables
VARIABLES
  _decoder, _audioBuffer, _inputPointer, _outputBuffer, _outputPointer,
  _outputOffset,
  heapOut,      \* the samples in the native output scratch buffer
  native,       \* the live native decoders
  calls,        \* the native calls of the job that resumed last
  ready,        \* readyPromise is resolved
  waiting,      \* the jobs suspended at await readyPromise, in order
  invoked,      \* the number of jobs invoked so far
  used,         \* the bytes of the containers decoded so far
  job,          \* the job that resumed last (0: none yet)
  arrayBuffer,  \* params["arrayBuffer"] of that job
  stack,        \* its ParseMaster activations
  pc,           \* "idle", "parse", "done" or "failed"
  error,        \* the message the job was rejected with
  result,       \* the sample buffer the job returned
  before        \* the step taken last, and the cursor and buffer before it

moduleVars ==
  << _decoder, _audioBuffer, _inputPointer, _outputBuffer, _outputPointer,
     _outputOffset, heapOut, native, calls >>

jobVars == << job, arrayBuffer, stack, pc, error, result, used, before >>

vars == << moduleVars, ready, waiting, invoked, jobVars >>

\* The module state and the running job as the records the operators take.
M ==
  [decoder |-> _decoder, audioBuffer |-> _audioBuffer,
   inputPointer |-> _inputPointer, outputBuffer |-> _outputBuffer,
   outputPointer |-> _outputPointer, outputOffset |-> _outputOffset,
   heapOut |-> heapOut, native |-> native, calls |-> calls, err |-> ""]

S == Job(M, stack, pc, error, result)

SetModule(m) ==
  /\ _decoder' = m.decoder
  /\ _audioBuffer' = m.audioBuffer
  /\ _inputPointer' = m.inputPointer
  /\ _outputBuffer' = m.outputBuffer
  /\ _outputPointer' = m.outputPointer
  /\ _outputOffset' = m.outputOffset
  /\ heapOut' = m.heapOut
  /\ native' = m.native
  /\ calls' = m.calls

\* The record of a step of the given kind on the element with header hdr,
\* taken from the current state.
Before(kind, hdr) ==
  [kind |-> kind, id |-> hdr.id, size |-> hdr.size,
   payload |-> IF hdr.size >= 0
                  /\ InRange(arrayBuffer, hdr.position, hdr.size)
               THEN SubSeqFrom(arrayBuffer, hdr.position, hdr.size)
               ELSE << >>,
   outputOffset |-> _outputOffset, audioBuffer |-> _audioBuffer,
   decoder |-> _decoder, ncalls |-> Len(calls),
   at |-> IF stack = << >> THEN 0 ELSE stack[Len(stack)].position,
   depth |-> Len(stack)]

NoHeader == [err |-> "", id |-> 0, size |-> 0, position |-> 0]

SetJob(t) ==
  /\ SetModule(t.m)
  /\ stack' = t.stack
  /\ pc' = t.pc
  /\ error' = t.error
  /\ result' = t.result

Init ==
  /\ _decoder = NoDecoder
  /\ _audioBuffer = null
  /\ _inputPointer = nullptr
  /\ _outputBuffer = nullptr
  /\ _outputPointer = nullptr
  /\ _outputOffset = 0
  /\ heapOut = << >>
  /\ native = { }
  /\ calls = << >>
  /\ ready = FALSE
  /\ waiting = << >>
  /\ invoked = 0
  /\ used = 0
  /\ job = 0
  /\ arrayBuffer = << >>
  /\ stack = << >>
  /\ pc = "idle"
  /\ error = ""
  /\ result = null
  /\ before = [kind |-> "none", id |-> 0, size |-> 0, payload |-> << >>,
               outputOffset |-> 0, audioBuffer |-> null,
               decoder |-> NoDecoder, ncalls |-> 0, at |-> 0, depth |-> 0]

\* ------------------------------------------------------------------ actions
\* Quiescent holding at every step, as if a job could be entered or resumed
\* in the middle of another.
Quiescent_Always == TRUE

\* No JavaScript is running: every step of a resumed job runs before any
\* other task or microtask.
Quiescent == pc # "parse"

\* The job dispatcher calls OpusDecode(params), which suspends at
\* await readyPromise.  With the promise resolved the continuation is the
\* next microtask, so no other call comes in between.
Invoke ==
  /\ Quiescent
  /\ invoked < MaxJobs
  /\ ready => waiting = << >>
  /\ invoked' = invoked + 1
  /\ waiting' = Append(waiting, invoked + 1)
  /\ UNCHANGED << moduleVars, ready, jobVars >>

\* Module.onRuntimeInitialized resolves readyPromise.
OnRuntimeInitialized ==
  /\ Quiescent
  /\ ~ready
  /\ ready' = TRUE
  /\ UNCHANGED << moduleVars, waiting, invoked, jobVars >>

\* The first suspended job resumes after the await and calls ParseMaster on
\* its whole buffer.  The buffer is first read here, so it is chosen here.
Resume ==
  /\ Quiescent
  /\ ready
  /\ waiting # << >>
  /\ \E c \in CorpusUpTo[MaxBytes - used] :
       /\ arrayBuffer' = c
       /\ used' = used + Len(c)
       /\ stack' = << Frame(0, Len(c)) >>
  /\ job' = Head(waiting)
  /\ waiting' = Tail(waiting)
  /\ pc' = "parse"
  /\ error' = ""
  /\ result' = null
  /\ calls' = << >>
  /\ before' = Before("resume", NoHeader)
  /\ UNCHANGED << _decoder, _audioBuffer, _inputPointer, _outputBuffer,
                  _outputPointer, _outputOffset, heapOut, native, ready,
                  invoked >>

\* The running job is at a step of the given kind.
At(kind) == pc = "parse" /\ Kind(S, arrayBuffer) = kind

\* It is at a leaf element with one of the given IDs.
AtLeaf(ids) ==
  /\ At("leaf")
  /\ Header(arrayBuffer, Top(S).position).id \in ids

\* The running job takes its next step.
Step ==
  /\ \E t \in ParseMaster(S, arrayBuffer) : SetJob(t)
  /\ before' = LET kind == Kind(S, arrayBuffer)
                   hdr == Header(arrayBuffer, Top(S).position)
               IN  IF kind \in {"master", "leaf", "skip"}
                   THEN Before(kind, hdr)
                   ELSE Before(kind, NoHeader)
  /\ UNCHANGED << ready, waiting, invoked, used, job, arrayBuffer >>

HeaderThrows ==
  /\ At("header")
  /\ Step

EnterMaster ==
  /\ At("master")
  /\ Step

ReturnMaster ==
  /\ At("return")
  /\ Step

OnDuration ==
  /\ AtLeaf({ID_Duration})
  /\ Step

OnCodecDelay ==
  /\ AtLeaf({ID_CodecDelay})
  /\ Step

OnDiscardPadding ==
  /\ AtLeaf({ID_DiscardPadding})
  /\ Step

OnCodecID ==
  /\ AtLeaf({ID_CodecID})
  /\ Step

OnBlock ==
  /\ AtLeaf({ID_Block, ID_SimpleBlock})
  /\ Step

OnUnknown ==
  /\ At("skip")
  /\ Step

Finish ==
  /\ At("finalize")
  /\ Step

Next ==
  \/ Invoke
  \/ OnRuntimeInitialized
  \/ Resume
  \/ HeaderThrows
  \/ EnterMaster
  \/ ReturnMaster
  \/ OnDuration
  \/ OnCodecDelay
  \/ OnDiscardPadding
  \/ OnCodecID
  \/ OnBlock
  \/ OnUnknown
  \/ Finish

Spec == Init /\ [][Next]_vars

\* ------------------------------------------- the header fields on their own
\* ParseMaster's two reads of a variable-length integer, applied to fields a
\* reference encoder wrote.  The number of values taken at each end of the
\* range of a length:
VIntSpread == 8

\* The n-byte big-endian form of x.
RECURSIVE BytesBE(_, _)
BytesBE(x, n) ==
  IF n = 0 THEN << >> ELSE BytesBE(x \div 256, n - 1) \o << x % 256 >>

\* The values 0 .. 2^(7 length) - 1 a field of the length can hold: those at
\* both ends of the range, the powers of two and their predecessors.
VIntValues(length) ==
  LET top == 2 ^ (7 * length) - 1
  IN  { v \in (0..(VIntSpread - 1))
                \cup { top - j : j \in 0..(VIntSpread - 1) }
                \cup { 2 ^ j : j \in 0..(7 * length - 1) }
                \cup { 2 ^ j - 1 : j \in 0..(7 * length - 1) } :
          v >= 0 /\ v <= top }

\* The field of the length that encodes value: the marker bit 2^(7 length)
\* is set above the value's bits.
EncodeVInt(value, length) == BytesBE(2 ^ (7 * length) + value, length)

\* The module as the script leaves it, and one encoded field to read:
\* before says which field it is and the value it was encoded from (for an
\* ID the marker bit belongs to the value).
VIntInit ==
  /\ _decoder = NoDecoder
  /\ _audioBuffer = null
  /\ _inputPointer = nullptr
  /\ _outputBuffer = nullptr
  /\ _outputPointer = nullptr
  /\ _outputOffset = 0
  /\ heapOut = << >>
  /\ native = { }
  /\ calls = << >>
  /\ ready = FALSE
  /\ waiting = << >>
  /\ invoked = 0
  /\ used = 0
  /\ job = 0
  /\ stack = << >>
  /\ pc = "field"
  /\ error = ""
  /\ result = null
  /\ \E length \in 1..4 : \E value \in VIntValues(length) :
       /\ arrayBuffer = EncodeVInt(value, length)
       /\ \/ before = [kind |-> "size", length |-> length, value |-> value]
          \/ before = [kind |-> "id", length |-> length,
                       value |-> 2 ^ (7 * length) + value]

\* Lines 187 to 190: the ID, read with the mask 255.
ReadId ==
  /\ pc = "field"
  /\ before.kind = "id"
  /\ LET tagLength == VINT_SIZES[getUint8(arrayBuffer, 0) + 1]
     IN  result' = ReadVInt(arrayBuffer, 0, tagLength, 255)
  /\ pc' = "read"
  /\ UNCHANGED << moduleVars, ready, waiting, invoked, job, arrayBuffer,
                  stack, error, used, before >>

\* Lines 192 to 196: the size, read with the mask of its length.
ReadSize ==
  /\ pc = "field"
  /\ before.kind = "size"
  /\ LET sizeLength == VINT_SIZES[getUint8(arrayBuffer, 0) + 1]
         mask == VINT_MASKS[sizeLength + 1]
     IN  result' = ReadVInt(arrayBuffer, 0, sizeLength, mask)
  /\ pc' = "read"
  /\ UNCHANGED << moduleVars, ready, waiting, invoked, job, arrayBuffer,
                  stack, error, used, before >>

VIntNext == ReadId \/ ReadSize

VIntSpec == VIntInit /\ [][VIntNext]_vars

\* ------------------------------------------------ the tables on their own
\* The lookups ParseMaster makes for the first byte of a field, for each of
\* the 256 bytes.
TableInit ==
  /\ _decoder = NoDecoder
  /\ _audioBuffer = null
  /\ _inputPointer = nullptr
  /\ _outputBuffer = nullptr
  /\ _outputPointer = nullptr
  /\ _outputOffset = 0
  /\ heapOut = << >>
  /\ native = { }
  /\ calls = << >>
  /\ ready = FALSE
  /\ waiting = << >>
  /\ invoked = 0
  /\ used = 0
  /\ job = 0
  /\ stack = << >>
  /\ pc = "byte"
  /\ error = ""
  /\ result = null
  /\ \E b \in 0..255 : arrayBuffer = << b >>
  /\ before = [kind |-> "byte", at |-> 0]

\* Lines 192 to 194: firstByte, sizeLength = VINT_SIZES[firstByte] and
\* mask = VINT_MASKS[sizeLength], then the first step of ReadVInt,
\* firstByte & mask.
LookUp ==
  /\ pc = "byte"
  /\ LET firstByte == getUint8(arrayBuffer, before.at)
         sizeLength == VINT_SIZES[firstByte + 1]
         mask == VINT_MASKS[sizeLength + 1]
     IN  result' = [length |-> sizeLength, mask |-> mask,
                    masked |-> AndMask(firstByte, mask)]
  /\ pc' = "looked"
  /\ UNCHANGED << moduleVars, ready, waiting, invoked, job, arrayBuffer,
                  stack, error, used, before >>

TableNext == LookUp

TableSpec == TableInit /\ [][TableNext]_vars

\* ------------------------------------------------- frames of many bytes
\* A job on a Duration and one block whose frame has about as many bytes as
\* the input scratch buffer: bufferSize less FrameSpread to bufferSize plus
\* FrameSpread.
FrameSpread == 12

FrameLengths == (bufferSize - FrameSpread)..(bufferSize + FrameSpread)

\* A frame of n bytes: a TOC byte of a 20 ms frame, then zeros.
BigFrame(n) == << 248 >> \o [i \in 1..(n - 1) |-> 0]

\* A SimpleBlock with a size field of two bytes that holds the frame.
BigBlock(n) ==
  << 163 >> \o EncodeVInt(n + 4, 2) \o BlockPayload(0, BigFrame(n))

\* OpusDecode has resumed on such a container and calls ParseMaster.
FrameInit ==
  /\ _decoder = NoDecoder
  /\ _audioBuffer = null
  /\ _inputPointer = nullptr
  /\ _outputBuffer = nullptr
  /\ _outputPointer = nullptr
  /\ _outputOffset = 0
  /\ heapOut = << >>
  /\ native = { }
  /\ calls = << >>
  /\ ready = TRUE
  /\ waiting = << >>
  /\ invoked = 1
  /\ job = 1
  /\ \E n \in FrameLengths : arrayBuffer = Dur40 \o BigBlock(n)
  /\ used = Len(arrayBuffer)
  /\ stack = << Frame(0, Len(arrayBuffer)) >>
  /\ pc = "parse"
  /\ error = ""
  /\ result = null
  /\ before = Before("resume", NoHeader)

FrameNext ==
  \/ OnDuration
  \/ OnBlock
  \/ Finish

FrameSpec == FrameInit /\ [][FrameNext]_vars

\* --------------------------------------------------------------- properties
\* The job that resumed last has ended.
JobEnded == pc \in {"done", "failed"}

\* The indices of the calls to _create_decoder of the job.
Creates == { i \in DOMAIN calls : calls[i][1] = "create" }

\* The handles _create_decoder returned to the job.
Created == { calls[i][2] : i \in { j \in Creates : calls[j][2] > 0 } }

\* The indices of the calls to _destroy_decoder with handle h.
Destroys(h) == { i \in DOMAIN calls : calls[i] = << "destroy", h >> }

\* C1: a job that fails after a Duration element has created a decoder
\* leaves the module in its initial state: no live decoder, no audio buffer,
\* cursor 0.
C1_FailedJobReleasesState ==
  (pc = "failed" /\ Created # { }) =>
    /\ _decoder = NoDecoder
    /\ native = { }
    /\ _audioBuffer = null
    /\ _outputOffset = 0

\* C2: a job is a pure function of its input buffer: whatever jobs ran
\* before it, it ends as a first job on a fresh module can end on the same
\* bytes, and the Write Cursor it starts with is 0.
C2_JobIsPureFunctionOfInput ==
  /\ JobEnded => Outcome(S) \in FreshOutcomes(arrayBuffer)
  /\ before.kind = "resume" => _outputOffset = 0

\* C3: in every job createDecoder is called exactly once, never while a
\* handle created earlier is live, and every handle created is destroyed
\* exactly once by the end of the job.
C3_OneDecoderPerJob ==
  JobEnded =>
    /\ Cardinality(Creates) = 1
    /\ \A i \in Creates : \A j \in Creates :
         (j < i /\ calls[j][2] > 0) =>
           \E d \in Destroys(calls[j][2]) : j < d /\ d < i
    /\ \A h \in Created : Cardinality(Destroys(h)) = 1

\* The samples of the returned buffer are those of the decoder output hist
\* from index from on.
ResultIsOutputFrom(hist, from) ==
  \A i \in 0..(result.length - 1) : SampleAt(result, i) = << hist, from + i >>

\* C4 as stated: Duration 40 ms, CodecDelay 120000000 ns, one block of 960
\* samples and DiscardPadding 0 produce 960 - floor(120000000 * 0.000048)
\* samples, the decoder's output from index floor(120000000 * 0.000048) on.
C4_EndToEndAsClaimed ==
  (JobEnded /\ job = 1 /\ arrayBuffer = EndToEnd
     /\ error # "Failed to create decoder") =>
    /\ pc = "done"
    /\ result.length = 960 - FloorSamples(120000000)
    /\ ResultIsOutputFrom(<< 248 >>, FloorSamples(120000000))

\* C4 amended: with a CodecDelay of 2500000 ns (2.5 ms) the same container
\* produces 960 - floor(2500000 * 0.000048) = 840 samples, the decoder's
\* output from index floor(2500000 * 0.000048) = 120 on.
C4_EndToEnd2500 ==
  (JobEnded /\ job = 1 /\ arrayBuffer = EndToEnd2500
     /\ error # "Failed to create decoder") =>
    /\ pc = "done"
    /\ result.length = 960 - FloorSamples(2500000)
    /\ result.length = 840
    /\ ResultIsOutputFrom(<< 248 >>, FloorSamples(2500000))

C4_Witness ==
  /\ pc = "done"
  /\ job = 1
  /\ arrayBuffer = EndToEnd2500
  /\ result.length = 840

\* The step taken last ran the handler of a leaf element with one of the
\* given IDs; before holds the element and the state the handler started in.
Handled(ids) == before.kind = "leaf" /\ before.id \in ids

\* The step taken last decoded a frame to a positive number of samples.
FrameDecoded ==
  /\ Handled({ID_Block, ID_SimpleBlock})
  /\ Len(calls) = before.ncalls + 1
  /\ calls[Len(calls)][1] = "decode"
  /\ calls[Len(calls)][3] > 0

\* The number of samples the frame decoded last has.
DecodedSamples == calls[Len(calls)][3]

\* Every stored run of samples lies at indices 0 .. length - 1.
RunsWithin(array) ==
  \A k \in 1..Len(array.runs) :
    /\ array.runs[k].at >= 0
    /\ array.runs[k].len > 0
    /\ array.runs[k].at + array.runs[k].len <= array.length

\* C5: after every frame write that returns normally the Write Cursor is at
\* most the length of the Output Sample Buffer, and no decoded sample is
\* ever stored at an index below 0 or at or above the buffer's length.
C5_WriteCursorInvariant ==
  /\ _audioBuffer # null => RunsWithin(_audioBuffer)
  /\ (FrameDecoded /\ error = "" /\ _audioBuffer # null) =>
       _outputOffset <= _audioBuffer.length

\* A frame was written behind earlier samples and fills the buffer up to its
\* last sample.
C5_Witness ==
  /\ FrameDecoded
  /\ error = ""
  /\ _audioBuffer # null
  /\ before.outputOffset > 0
  /\ Len(_audioBuffer.runs) > 1
  /\ _outputOffset = _audioBuffer.length

\* C6: a frame whose N decoded samples would take the Write Cursor beyond
\* the length of the Output Sample Buffer fails the job with "Buffer
\* overflow", and at the failure the samples written so far and the Write
\* Cursor are what they were before the frame.
C6_OverflowLeavesPrefix ==
  /\ error = "Buffer overflow" =>
       /\ pc = "failed"
       /\ FrameDecoded
       /\ _audioBuffer = before.audioBuffer
       /\ _outputOffset = before.outputOffset
  /\ (FrameDecoded /\ before.audioBuffer # null
        /\ before.outputOffset + DecodedSamples > before.audioBuffer.length) =>
       error = "Buffer overflow"

\* A frame overflowed a buffer that held samples already.
C6_Witness ==
  /\ error = "Buffer overflow"
  /\ pc = "failed"
  /\ before.outputOffset > 0
  /\ before.audioBuffer.runs # << >>
  /\ before.outputOffset + DecodedSamples > before.audioBuffer.length

\* floor(D * 0.000048) for the unsigned big-endian integer D of the bytes,
\* by long division: quot and rem are D \div 62500 and D % 62500 of the
\* bytes read so far.
RECURSIVE SamplesOfBytes(_, _, _)
SamplesOfBytes(bytes, quot, rem) ==
  IF bytes = << >> THEN 3 * quot + ((3 * rem) \div 62500)
  ELSE LET r == rem * 256 + Head(bytes)
       IN  SamplesOfBytes(Tail(bytes), quot * 256 + (r \div 62500),
                          r % 62500)

\* The signed (two's complement) big-endian integer of one to four bytes.
RECURSIVE SignedBE(_)
SignedBE(bytes) ==
  IF Len(bytes) = 1
  THEN IF bytes[1] >= 128 THEN bytes[1] - 256 ELSE bytes[1]
  ELSE SignedBE(SubSeq(bytes, 1, Len(bytes) - 1)) * 256 + bytes[Len(bytes)]

\* The frame decoded last was stored behind a cursor of -k: its samples
\* k .. N - 1 are at indices 0 .. N - k - 1, nothing else changed, and the
\* cursor is N - k.
StoredBehind(k) ==
  LET N == DecodedSamples
  IN  /\ _outputOffset = N - k
      /\ \A i \in 0..(_audioBuffer.length - 1) :
           SampleAt(_audioBuffer, i) =
             IF i < N - k THEN << heapOut, k + i >>
             ELSE SampleAt(before.audioBuffer, i)

\* C7: a CodecDelay of D nanoseconds sets the Write Cursor to
\* -floor(D * 0.000048) = -k, and a frame of N samples decoded then stores
\* max(0, N - k) samples, the decoder's samples k .. N - 1 at indices
\* 0 .. N - k - 1, and makes the cursor N - k.
C7_CodecDelayTrimsLeading ==
  /\ (Handled({ID_CodecDelay}) /\ before.size \in 1..8
        /\ Len(before.payload) = before.size) =>
       /\ error = ""
       /\ _outputOffset = -SamplesOfBytes(before.payload, 0, 0)
  /\ (FrameDecoded /\ error = "" /\ before.outputOffset < 0
        /\ before.audioBuffer # null) =>
       StoredBehind(-before.outputOffset)

\* The same for the delays below 2^31 nanoseconds.
DelayBelowWrapTrimsLeading ==
  /\ (Handled({ID_CodecDelay}) /\ before.size \in 1..8
        /\ Len(before.payload) = before.size
        /\ (before.size < 4 \/ before.payload[before.size - 3] < 128)) =>
       /\ error = ""
       /\ _outputOffset = -SamplesOfBytes(before.payload, 0, 0)
  /\ (FrameDecoded /\ error = "" /\ before.outputOffset < 0
        /\ before.audioBuffer # null) =>
       StoredBehind(-before.outputOffset)

\* The step taken last ran the DiscardPadding handler on a payload of one to
\* four bytes.
DiscardHandled ==
  /\ Handled({ID_DiscardPadding})
  /\ before.size \in 1..4
  /\ Len(before.payload) = before.size

\* The samples the decoder returned to the job.
RECURSIVE TotalDecoded(_)
TotalDecoded(log) ==
  IF log = << >> THEN 0
  ELSE (IF Head(log)[1] = "decode" /\ Head(log)[3] > 0 THEN Head(log)[3]
        ELSE 0) + TotalDecoded(Tail(log))

\* C8: a DiscardPadding of P >= 0 nanoseconds, in each width of 1, 2, 3 or 4
\* bytes (big-endian signed), takes floor(P * 0.000048) samples off the
\* cursor, and behind the decoded frames off the length of the returned
\* buffer, which is the number of samples decoded less that count.
C8_DiscardPaddingShortens ==
  /\ (DiscardHandled /\ SignedBE(before.payload) >= 0) =>
       /\ error = ""
       /\ _outputOffset =
            before.outputOffset - FloorSamples(SignedBE(before.payload))
  /\ \A d \in DiscardLib :
       (pc = "done" /\ job = 1 /\ arrayBuffer = Dur40 \o B960 \o d
          /\ SignedBE(SubSeq(d, 4, Len(d))) >= 0) =>
         result.length =
           TotalDecoded(calls) - FloorSamples(SignedBE(SubSeq(d, 4, Len(d))))

\* C9: a DiscardPadding whose payload of 1, 2, 3 or 4 bytes encodes a
\* negative value fails the job with "Cannot discard leading block data",
\* and the handler leaves the Write Cursor as it was.
C9_NegativeDiscardFails ==
  (DiscardHandled /\ SignedBE(before.payload) < 0) =>
    /\ pc = "failed"
    /\ error = "Cannot discard leading block data"
    /\ _outputOffset = before.outputOffset

\* C10: a job that succeeds returns the samples of the Output Sample Buffer
\* at indices 0 .. writeCursor - 1 and nothing else: the buffer returned has
\* writeCursor samples (4 * writeCursor bytes).
C10_ReturnsPrefixUpToCursor ==
  pc = "done" =>
    /\ before.kind = "finalize"
    /\ result.length = before.outputOffset
    /\ \A i \in 0..(result.length - 1) :
         SampleAt(result, i) = SampleAt(before.audioBuffer, i)

\* The step taken last ran the block handler on a block whose payload holds
\* its flags byte, with a lacing bit (flags & 6) set.
LacedBlock ==
  /\ Handled({ID_Block, ID_SimpleBlock})
  /\ before.size >= 1
  /\ Len(before.payload) = before.size
  /\ LET t == VINT_SIZES[before.payload[1] + 1]
     IN  /\ t + 3 <= before.size
         /\ (before.payload[t + 3] \div 2) % 4 # 0

\* C11: a Block or SimpleBlock with a lacing bit set in its flags fails the
\* job with "Lacing not supported" before its frame goes to the decoder, and
\* the job returns no buffer.
C11_LacingRejected ==
  LacedBlock =>
    /\ pc = "failed"
    /\ error = "Lacing not supported"
    /\ Len(calls) = before.ncalls
    /\ result = null
    /\ _audioBuffer = before.audioBuffer

\* A laced block was rejected behind a block decoded in the same job.
C11_Witness ==
  /\ LacedBlock
  /\ error = "Lacing not supported"
  /\ TotalDecoded(calls) > 0
  /\ before.outputOffset > 0

\* C12: a CodecID element whose payload is not the six bytes of OPUS_SIG
\* (other bytes, or another length) fails the job with "Contains non opus
\* data", wherever it stands in the container, and no frame has been given
\* to the decoder in the job before that.
C12_CodecMismatchBeforeDecode ==
  (Handled({ID_CodecID}) /\ Len(before.payload) = before.size
     /\ before.payload # OPUS_SIG) =>
    /\ pc = "failed"
    /\ error = "Contains non opus data"
    /\ \A i \in DOMAIN calls : calls[i][1] # "decode"

\* C13: every activation of ParseMaster stays in its range: no element it
\* parses ends behind the end of the range, so that the walk ends with
\* position equal to the end, and the range of a nested activation ends no
\* later than the range of the activation that called it.
C13_WalkCoversRange ==
  pc = "parse" =>
    \A i \in 1..Len(stack) :
      /\ stack[i].position <= stack[i].end
      /\ i > 1 => stack[i].end <= stack[i - 1].end

\* The number of bytes the first byte b of an EBML variable-length integer
\* announces: one more than its leading zero bits, and 0 for the byte 0.
RECURSIVE MarkerLength(_)
MarkerLength(b) ==
  IF b = 0 THEN 0 ELSE IF b >= 128 THEN 1 ELSE 1 + MarkerLength(2 * b)

\* The step taken last read an element header at before.at.
HeaderRead == before.kind \in {"header", "master", "leaf", "skip"}

\* The length of the ID field of that header, and of its size field.
IdLength == MarkerLength(arrayBuffer[before.at + 1])
SizeLength == MarkerLength(arrayBuffer[before.at + IdLength + 1])

\* C14: an element header whose ID field or size field announces 0 bytes or
\* more than 4 fails the job with the walker's length error, and no element
\* with a size field of 5 to 8 bytes is dispatched or skipped.
C14_LongFieldsRejected ==
  (HeaderRead /\ InRange(arrayBuffer, before.at, 1)) =>
    IF IdLength \notin 1..4
    THEN pc = "failed" /\ error = "Invalid tag length"
    ELSE InRange(arrayBuffer, before.at + IdLength, 1) =>
           IF SizeLength \notin 1..4
           THEN pc = "failed" /\ error = "Invalid size length"
           ELSE TRUE

\* The messages of the errors the code throws itself, by taxonomy kind:
\* Malformed VarInt, Unsupported Feature, Codec Mismatch, Invalid Field Size,
\* Unsupported Discard Direction, Decoder Failure (two), Buffer Overflow.
TaxonomyMessages ==
  { "Invalid tag length", "Invalid size length", "Lacing not supported",
    "Contains non opus data", "Invalid size",
    "Cannot discard leading block data", "Failed to create decoder",
    "Failed to parse frame", "Buffer overflow" }

\* C15: every job ends either with a returned sample buffer or with one
\* failure of a kind of the taxonomy; no container makes it fail with an
\* error of another kind.
C15_FailuresAreOfTheTaxonomy ==
  JobEnded =>
    \/ pc = "done" /\ result # null /\ error = ""
    \/ pc = "failed" /\ result = null /\ error \in TaxonomyMessages

\* C16: the step that raises a failure ends the job without a sample buffer
\* and with no activation of the walker left, and from then on the job
\* parses no element, calls the decoder no more, writes nothing to the
\* Output Sample Buffer and returns nothing.
C16_FailureAbortsJob ==
  [][ /\ pc' = "failed" => (result' = null /\ stack' = << >>)
      /\ (pc = "failed" /\ job' = job) =>
           /\ pc' = "failed"
           /\ error' = error
           /\ result' = null
           /\ calls' = calls
           /\ _audioBuffer' = _audioBuffer
           /\ _outputOffset' = _outputOffset
           /\ before' = before ]_vars

\* A job failed with samples decoded and stored, at an element that is not
\* the last of its container.
C16_Witness ==
  /\ pc = "failed"
  /\ TotalDecoded(calls) > 0
  /\ before.kind = "leaf"
  /\ before.audioBuffer # null
  /\ before.audioBuffer.runs # << >>
  /\ Header(arrayBuffer, before.at).position + before.size < Len(arrayBuffer)

\* C17: from the step where a job resumes behind the readiness wait until it
\* has read the final cursor, destroyed the decoder and taken its output, no
\* other job takes a step: no job is entered and none resumes, and the
\* Decoder Handle, the Output Sample Buffer and the Write Cursor change only
\* in the steps of the job that is running.
C17_JobsDoNotInterleave ==
  [][ /\ pc = "parse" =>
           /\ job' = job
           /\ arrayBuffer' = arrayBuffer
           /\ waiting' = waiting
           /\ invoked' = invoked
      /\ << _decoder, _audioBuffer, _outputOffset, native >>'
            # << _decoder, _audioBuffer, _outputOffset, native >> =>
           (pc = "parse" /\ job' = job) ]_vars

\* The first of two jobs that waited for the runtime is between two decoded
\* frames, the second still waiting.
C17_Witness ==
  /\ pc = "parse"
  /\ job = 1
  /\ waiting = << 2 >>
  /\ TotalDecoded(calls) > 0
  /\ Kind(S, arrayBuffer) = "leaf"

\* The value of the Duration payload the step taken last was given.
DurationOf ==
  IF before.size = 4 THEN getFloat32(before.payload, 0)
  ELSE getFloat64(before.payload, 0)

\* 48 * |durationMs| is DurationScaled / 2^DurationShift.
DurationScaled ==
  48 * DurationOf.m * (IF DurationOf.e > 0 THEN Pow2(DurationOf.e) ELSE 1)

DurationShift == IF DurationOf.e < 0 THEN -DurationOf.e ELSE 0

\* The step taken last ran the Duration handler on a payload of 4 or 8
\* bytes that holds a finite value of at least -120 ms whose exponent the
\* arithmetic here can hold.
DurationInDomain ==
  /\ Handled({ID_Duration})
  /\ before.size \in {4, 8}
  /\ Len(before.payload) = before.size
  /\ DurationOf.kind = "fin"
  /\ DurationOf.e \in -30..7
  /\ DurationOf.neg => DurationScaled <= 5760 * Pow2(DurationShift)

\* ... and the handler allocated the Output Sample Buffer.
DurationAllocated ==
  /\ DurationInDomain
  /\ error \in {"", "Failed to create decoder"}

\* (durationMs + 120) * 48 rounded to the nearest integer.
NearestLength ==
  LET half == IF DurationShift = 0 THEN 0 ELSE Pow2(DurationShift - 1)
      n == (DurationScaled + half) \div Pow2(DurationShift)
  IN  IF DurationOf.neg THEN 5760 - n ELSE 5760 + n

\* (durationMs + 120) * 48 rounded down.
FloorLength ==
  LET p == Pow2(DurationShift)
  IN  IF DurationOf.neg THEN 5760 - ((DurationScaled + p - 1) \div p)
      ELSE 5760 + (DurationScaled \div p)

C19_VarIntRoundTrip ==
  pc = "read" =>
    /\ result = Ok(before.value)
    /\ result.v >= 0
    /\ Len(arrayBuffer) = before.length

\* The largest size of 4 bytes was read.
C19_Witness ==
  /\ pc = "read"
  /\ before.length = 4
  /\ before.kind = "size"
  /\ arrayBuffer = << 31, 255, 255, 255 >>
  /\ result.v = 268435455

\* C20: every iteration of the walker's loop moves forward, so that the walk
\* of a finite buffer ends: an element the walker accepts has a size of 0 or
\* more, and after it position is greater than where the element began.  (A
\* walker back at a position it has left, with the module state a skipped
\* element leaves alone, repeats its steps for ever.)
C20_PositionMovesForward ==
  (before.kind \in {"leaf", "skip"} /\ pc = "parse") =>
    /\ before.size >= 0
    /\ stack[Len(stack)].position > before.at

\* C21: every call to _decode_frame and to _destroy_decoder of a job is made
\* with a handle that _create_decoder returned earlier in the same job and
\* that has not been destroyed since: no frame is decoded before a Duration
\* element has created the decoder, and no null handle is destroyed.
C21_DecoderOpsHaveLiveHandle ==
  \A i \in DOMAIN calls :
    calls[i][1] \in {"decode", "destroy"} =>
      \E j \in 1..(i - 1) :
        /\ calls[j] = << "create", calls[i][2] >>
        /\ calls[i][2] > 0
        /\ \A d \in Destroys(calls[i][2]) : d < j \/ d >= i

\* The number of decoded samples an array holds.
RECURSIVE StoredSamples(_)
StoredSamples(runs) ==
  IF runs = << >> THEN 0 ELSE Head(runs).len + StoredSamples(Tail(runs))

\* C22: the buffer a job returns has no more samples than the job stored
\* into the Output Sample Buffer, and it is empty when the final Write
\* Cursor is 0 or less.
C22_ReturnsNoMoreThanStored ==
  pc = "done" =>
    /\ before.kind = "finalize"
    /\ result.length <= StoredSamples(before.audioBuffer.runs)
    /\ before.outputOffset <= 0 => result.length = 0

\* The CodecDelay of an element of the order corpus in samples (0 for no
\* element), and the DiscardPadding of a DiscardPadding element in samples.
DelaySamples(delay) ==
  IF delay = << >> THEN 0
  ELSE SamplesOfBytes(SubSeq(delay, 4, Len(delay)), 0, 0)

PaddingSamples(d) == FloorSamples(SignedBE(SubSeq(d, 4, Len(d))))

\* C23: with the same Duration, CodecDelay and frame, a DiscardPadding gives
\* the same output whether it stands before or behind its Block in the
\* BlockGroup: the decoder's output without its first floor(delay * 0.000048)
\* and its last floor(P * 0.000048) samples.
C23_DiscardOrderIndependent ==
  \A c \in OrderCases :
    (pc = "done" /\ job = 1
       /\ arrayBuffer \in { DiscardFirst(c[1], c[2]), BlockFirst(c[1], c[2]) }) =>
      /\ result.length = 960 - DelaySamples(c[1]) - PaddingSamples(c[2])
      /\ ResultIsOutputFrom(<< 248 >>, DelaySamples(c[1]))

\* The same for the order the muxers write: the Block first.
BlockFirstAsClaimed ==
  \A c \in OrderCases :
    (pc = "done" /\ job = 1 /\ arrayBuffer = BlockFirst(c[1], c[2])) =>
      /\ result.length = 960 - DelaySamples(c[1]) - PaddingSamples(c[2])
      /\ ResultIsOutputFrom(<< 248 >>, DelaySamples(c[1]))

\* C24: the CodecDelay handler reads a payload of 1 to 8 bytes as the
\* unsigned big-endian integer of those bytes, a value of 0 or more, and
\* leaves the Write Cursor at -floor(value * 0.000048), which is 0 or less.
C24_CodecDelayIsUnsigned ==
  (Handled({ID_CodecDelay}) /\ before.size \in 1..8
     /\ Len(before.payload) = before.size) =>
    /\ error = ""
    /\ _outputOffset <= 0
    /\ -_outputOffset = SamplesOfBytes(before.payload, 0, 0)

\* The step taken last called _decode_frame.
DecodeCalled ==
  /\ Handled({ID_Block, ID_SimpleBlock})
  /\ Len(calls) = before.ncalls + 1
  /\ calls[Len(calls)][1] = "decode"

\* C25: the output scratch buffer CreateDecoder allocated and ParseFrame
\* gives to _decode_frame holds at least the 4096 samples the same call
\* declares as its capacity, and every count of samples the decoder returns
\* fits in it.
C25_ScratchHoldsDeclaredSamples ==
  (DecodeCalled /\ _outputPointer # nullptr) =>
    /\ OutputScratchSamples(M) >= MaxOutputSamples
    /\ calls[Len(calls)][3] <= OutputScratchSamples(M)

\* The bytes of the frame in the block the step taken last was given.
FrameLength == before.size - (VINT_SIZES[before.payload[1] + 1] + 3)

\* C26: the frame ParseFrame copies into the input scratch buffer
\* CreateDecoder allocated has 0 bytes or more and no more than the buffer
\* holds, and a block with a longer frame fails the job without a call to
\* the decoder.
C26_FrameFitsInputBuffer ==
  /\ (DecodeCalled /\ _inputPointer # nullptr) =>
       /\ FrameLength >= 0
       /\ FrameLength <= InputScratchBytes(M)
  /\ (Handled({ID_Block, ID_SimpleBlock}) /\ _inputPointer # nullptr
        /\ Len(before.payload) = before.size /\ before.size >= 4
        /\ FrameLength > InputScratchBytes(M)) =>
       /\ pc = "failed"
       /\ Len(calls) = before.ncalls

\* C27: a frame decoded to N > 0 samples at a cursor c >= 0 with c + N no
\* more than the buffer's length stores the N samples at indices c .. c + N
\* - 1, changes no other sample and makes the cursor c + N, so that frames
\* that follow one another lie in the buffer one behind the other; a frame
\* the decoder returns 0 or less for fails the job and changes neither the
\* buffer nor the cursor.
C27_FrameStoredAtCursor ==
  /\ (FrameDecoded /\ before.audioBuffer # null /\ before.outputOffset >= 0
        /\ before.outputOffset + DecodedSamples
             <= before.audioBuffer.length) =>
       /\ error = ""
       /\ _outputOffset = before.outputOffset + DecodedSamples
       /\ _audioBuffer.length = before.audioBuffer.length
       /\ \A i \in 0..(_audioBuffer.length - 1) :
            SampleAt(_audioBuffer, i) =
              IF before.outputOffset <= i /\ i < _outputOffset
              THEN << heapOut, i - before.outputOffset >>
              ELSE SampleAt(before.audioBuffer, i)
  /\ (DecodeCalled /\ calls[Len(calls)][3] <= 0) =>
       /\ pc = "failed"
       /\ error = "Failed to parse frame"
       /\ _audioBuffer = before.audioBuffer
       /\ _outputOffset = before.outputOffset

\* A frame of 120 samples was stored behind one of 960 samples.
C27_Witness ==
  /\ FrameDecoded
  /\ error = ""
  /\ before.outputOffset = 960
  /\ DecodedSamples = 120
  /\ _outputOffset = 1080
  /\ SampleAt(_audioBuffer, 959) = << << 248 >>, 959 >>
  /\ SampleAt(_audioBuffer, 960) = << << 248, 128 >>, 0 >>

\* C28: a job that has completed leaves the per-job state as it was before
\* the first job: the Decoder Handle is null and the decoder it named is
\* destroyed, the Write Cursor is 0 and there is no Output Sample Buffer; and
\* a Duration element always gives the job a buffer with no sample stored
\* and a decoder that has decoded nothing.
C28_CompletedJobResetsState ==
  /\ pc = "done" =>
       /\ before.kind = "finalize"
       /\ _decoder = NoDecoder
       /\ calls[Len(calls)] = << "destroy", before.decoder >>
       /\ ~IsLive(native, before.decoder)
       /\ _outputOffset = 0
       /\ _audioBuffer = null
  /\ (Handled({ID_Duration}) /\ error = "") =>
       /\ _audioBuffer # null
       /\ _audioBuffer # before.audioBuffer \/ before.audioBuffer.runs = << >>
       /\ _audioBuffer.runs = << >>
       /\ _decoder # before.decoder
       /\ IsLive(native, _decoder)
       /\ HistOf(native, _decoder) = << >>

\* The second job has completed with samples of its own.
C28_Witness ==
  /\ pc = "done"
  /\ job = 2
  /\ before.outputOffset > 0
  /\ result.length = before.outputOffset
  /\ Cardinality(Creates) = 1
  /\ _decoder = NoDecoder

\* The position behind the header read at before.at.
BehindHeader == before.at + IdLength + SizeLength

\* The size the header declares: the bytes of its size field with the marker
\* bit cleared, behind zero bytes up to a length of eight.
DeclaredSizeBytes ==
  LET at == before.at + IdLength
      first == arrayBuffer[at + 1] % Pow2(8 - SizeLength)
  IN  [i \in 1..(8 - SizeLength) |-> 0] \o << first >>
        \o SubSeq(arrayBuffer, at + 2, at + SizeLength)

\* n is the size the header declares.
IsDeclaredSize(n) == n >= 0 /\ BytesBE(n, 8) = DeclaredSizeBytes

\* C29: an element whose ID is none of the six master IDs and none of the
\* six leaf IDs is skipped without an error: the walker moves position
\* forward by the length of the header plus the size the header declares and
\* leaves the Decoder Handle, the Output Sample Buffer and the Write Cursor
\* alone.  In every other branch position moves by the same amount: behind a
\* leaf whose handler returns, and for a master element by its header at once
\* and by its size when the nested walk returns.
C29_UnknownElementSkipped ==
  /\ before.kind = "skip" =>
       /\ before.id \notin (MasterIDs \cup LeafIDs)
       /\ pc = "parse"
       /\ error = ""
       /\ Len(stack) = before.depth
       /\ IsDeclaredSize(stack[Len(stack)].position - BehindHeader)
       /\ _decoder = before.decoder
       /\ _audioBuffer = before.audioBuffer
       /\ _outputOffset = before.outputOffset
       /\ Len(calls) = before.ncalls
  /\ (before.kind = "leaf" /\ pc = "parse") =>
       /\ Len(stack) = before.depth
       /\ IsDeclaredSize(stack[Len(stack)].position - BehindHeader)
  /\ before.kind = "master" =>
       /\ Len(stack) = before.depth + 1
       /\ stack[before.depth].position = BehindHeader
       /\ stack[Len(stack)].position = BehindHeader
       /\ stack[Len(stack)].end = BehindHeader + stack[Len(stack)].size
       /\ IsDeclaredSize(stack[Len(stack)].size)

\* The same for the headers whose size field has at most four bytes.
ShortSizeElementSkipped ==
  (HeaderRead /\ InRange(arrayBuffer, before.at, 1) /\ IdLength \in 1..4
     /\ InRange(arrayBuffer, before.at + IdLength, 1)
     /\ SizeLength \in 1..4) =>
    C29_UnknownElementSkipped

\* C30: the table of lengths has 256 entries and gives the byte 0 the length
\* 0 and every other byte one more than the number of its leading zero bits;
\* the mask of each length n of 1 to 8 is 2^(8 - n) - 1, so that masking the
\* first byte of a field clears its marker bit, the zero bits above it being
\* clear already.
C30_TablesFollowRule ==
  /\ Len(VINT_SIZES) = 256
  /\ Len(VINT_MASKS) = 9
  /\ pc = "looked" =>
       /\ result.length = MarkerLength(arrayBuffer[1])
       /\ arrayBuffer[1] = 0 <=> result.length = 0
       /\ result.length \in 1..8 =>
            /\ result.mask = 2 ^ (8 - result.length) - 1
            /\ result.masked = arrayBuffer[1] - 2 ^ (8 - result.length)
            /\ result.masked \in 0..result.mask

\* The byte 1 was looked up: a field of eight bytes, nothing left of the byte.
C30_Witness ==
  /\ pc = "looked"
  /\ arrayBuffer = << 1 >>
  /\ result = [length |-> 8, mask |-> 0, masked |-> 0]

=============================================================================
